---- MODULE Spec2Model ----
(***************************************************************************)
(* A model of cml-lab-builder: the authenticated HTTP session (CMLAuth in  *)
(* client.py) and the tool operations built on it (tools/*.py).            *)
(*                                                                         *)
(* A state is a point where every running invocation is suspended at an    *)
(* await on the network.  One action is one wire call (send and response)  *)
(* followed by the synchronous code that runs up to the next await, or the *)
(* synchronous continuation of a tool after request() has returned.  The   *)
(* remote server is the environment: it picks every status and body.       *)
(***************************************************************************)
EXTENDS Integers, Sequences, FiniteSets, TLC

\* ------------------------------------------------------------- bounds
NumTasks == 2          \* request() invocations that can be in progress at once
MaxIfaces == 3         \* longest interface list the server returns

Tasks == 1..NumTasks
\* Invocations that follow one another all run as the first task.
Sequential == {1}
NodeIds == {1, 2}

\* ------------------------------------------------------------ strings
\* A response text is a sequence of characters; Q is the double quote.
Q == "\""

RECURSIVE LStrip(_)
LStrip(s) == IF s # <<>> /\ Head(s) = Q THEN LStrip(Tail(s)) ELSE s

RECURSIVE RStrip(_)
RStrip(s) == IF s # <<>> /\ s[Len(s)] = Q THEN RStrip(SubSeq(s, 1, Len(s) - 1)) ELSE s

\* str.strip('"'), client.py line 56
Strip(s) == RStrip(LStrip(s))

\* f"Bearer {self.token}", client.py lines 92 and 101
Bearer(tok) == <<"Bearer ">> \o tok

\* self.token: None until a login stores a string
NoToken == [has |-> FALSE, val |-> <<>>]
Tok(v) == [has |-> TRUE, val |-> v]

\* faulty variant: the constructor presets a token
InitialTokenPreset == Tok(<<"a">>)

\* self.token = None, client.py line 28
InitialToken == NoToken

\* `not self.token` is false for a non-empty string only
Truthy(tk) == tk.has /\ tk.val # <<>>

\* ------------------------------------------------------ the remote API
Unauthorized == 401
TransportFailure == 0      \* no response at all: the transport raised

\* statuses the server may answer a call with (0: connection error, timeout)
Statuses == {TransportFailure, 200, Unauthorized, 500}
LoginStatuses == {TransportFailure, 200, 403}

\* response.raise_for_status() passes exactly the 2xx statuses
Is2xx(st) == 200 <= st /\ st <= 299

\* texts the login endpoint may return on success
LoginBodies == { <<Q, "a", Q>>, <<Q, "b", Q>>, <<Q, Q>> }

\* JSON values of an object's field
NoField == "<absent>"
Null == "<null>"

\* A decoded JSON body.  shape: "dict", "list", "str", "null", or "bad" when
\* response.json() raises.  id/slot/type/conn are a dict's fields, items a
\* list's elements, a dict's keys in order, or a string's words and blanks.
JV(shape, id, items, slot, type, conn) ==
    [shape |-> shape, id |-> id, items |-> items, slot |-> slot, type |-> type, conn |-> conn,
     err |-> FALSE]
JNull == JV("null", NoField, <<>>, NoField, NoField, NoField)
JBad == JV("bad", NoField, <<>>, NoField, NoField, NoField)
JObj(id) == JV("dict", id, <<>>, NoField, NoField, NoField)
JList(items) == JV("list", NoField, items, NoField, NoField, NoField)
JKeys(items) == JV("dict", NoField, items, NoField, NoField, NoField)
JStr(items) == JV("str", NoField, items, NoField, NoField, NoField)
JDetail(slot, type, conn) == JV("dict", NoField, <<>>, slot, type, conn)
\* a dict that has an "error" key
JErr == [JObj(NoField) EXCEPT !.err = TRUE]

\* ------------------------------------------------------------- headers
NoHeaders == [h \in {} |-> <<>>]
JsonHeaders == [h \in {"Content-Type"} |-> <<"application/json">>]
ForgedHeaders == [h \in {"Authorization"} |-> <<"Bearer ", "z">>]
CallerHeaders == {NoHeaders, JsonHeaders, ForgedHeaders}

\* faulty variant: a caller-supplied Authorization header is kept
HeadersKeepCaller(caller, tk) ==
    [h \in DOMAIN caller \cup {"Authorization"} |->
        IF h \in DOMAIN caller THEN caller[h] ELSE Bearer(tk.val)]

\* kwargs["headers"]["Authorization"] = f"Bearer {self.token}"
Headers(caller, tk) ==
    [h \in DOMAIN caller \cup {"Authorization"} |->
        IF h = "Authorization" THEN Bearer(tk.val) ELSE caller[h]]

\* ------------------------------------------------------------ requests
\* An endpoint under /api/v0: kind names the path, node/iface its
\* identifiers, q its query string.
Endpoint(kind, node, iface, q) == [kind |-> kind, node |-> node, iface |-> iface, q |-> q]

\* The arguments of one request() call; stage names the caller's step.
Request(method, ep, headers, json, stage) ==
    [method |-> method, endpoint |-> ep, headers |-> headers, json |-> json, stage |-> stage]
NoJson == [f \in {} |-> 0]
NoRequest == Request("", Endpoint("", 0, 0, ""), NoHeaders, NoJson, "")

\* What request() or authenticate() handed to its caller.
NoOut == [kind |-> "none", status |-> 0, body |-> JNull, exc |-> ""]
OkOut(st, body) == [kind |-> "ok", status |-> st, body |-> body, exc |-> ""]
RaiseOut(st) ==
    [kind |-> "raise", status |-> st, body |-> JNull,
     exc |-> IF st = TransportFailure THEN "TransportError" ELSE "HTTPStatusError"]

\* History of the request() call in progress: the calls sent to the target
\* endpoint, the statuses they got, the logins attempted, how the lazy login
\* and the re-login ended, the last login text, how the last token check
\* went (until the next send) and what authenticate() returned.
NoGh == [sent |-> <<>>, sts |-> <<>>, logins |-> 0, lazy |-> "none", relogin |-> "none",
         loginBody |-> <<>>, check |-> "none", authRet |-> NoToken]

\* faulty variant: any refused first send is answered by a login and a retry
NextAfterSendAnyFailure(which, st) ==
    IF which = 1 /\ ~Is2xx(st) THEN "relogin" ELSE "done"

\* faulty variant: every 401 is answered by another login and another send
NextAfterSendLoop(which, st) == IF st = Unauthorized THEN "relogin" ELSE "done"

\* `if response.status_code == 401:` guards the only retry, client.py 98-104
NextAfterSend(which, st) == IF which = 1 /\ st = Unauthorized THEN "relogin" ELSE "done"

\* faulty variant: a failed token check fails authenticate()
AuthCheckRaisesStrict(st) == ~Is2xx(st)

\* `except Exception` swallows every failure of the authok call
AuthCheckRaises(st) == FALSE

\* faulty variant: a rejected login forgets the token
TokenAfterFailedLoginClear(tk) == NoToken

\* raise_for_status() raises before self.token is assigned
TokenAfterFailedLogin(tk) == tk

\* faulty variant: a login does not replace a token the session already holds
TokenAfterLoginKeepFirst(tk, text) == IF tk.has THEN tk ELSE Tok(Strip(text))

\* self.token = response.text.strip('"'), whatever the token was
TokenAfterLogin(tk, text) == Tok(Strip(text))

VARIABLES
    token,         \* self.token of each live CMLAuth object, by session
    cml_client,    \* the global _cml_client: 0 (None) or a session
    reauthFailed,  \* history: sessions on which a 401-triggered login failed
    loggedIn,      \* history: sessions on which a login has succeeded
    tool,          \* per task: the tool operation running, with its arguments
    tpc,           \* per task: the tool's position
    loc,           \* per task: the tool's local variables
    result,        \* per task: what the tool handed to its caller
    touched,       \* history, per task: stages whose endpoint was sent to
    rpc,           \* per task: position inside request()/authenticate()
    aret,          \* per task: where authenticate() returns to
    req,           \* per task: the arguments of the request() in progress
    sess,          \* per task: the CMLAuth object the call runs on
    out,           \* per task: outcome of the last request()/authenticate()
    gh             \* per task: history of the request() in progress

vars == <<token, cml_client, reauthFailed, loggedIn, tool, tpc, loc, result, touched,
          rpc, aret, req, sess, out, gh>>
sessionVars == <<token, cml_client, reauthFailed, loggedIn>>
toolVars == <<tool, tpc, loc, result>>
requestVars == <<rpc, aret, req, sess, out, gh>>

\* ---------------------------------------------------------- tool values
\* Optional arguments are sets of at most one value: {} is Python's None.
IdleTool == [name |-> "idle", a |-> 0, b |-> 0, headers |-> NoHeaders,
             ram |-> {}, cpu |-> {}, params |-> {}, populate |-> FALSE]
ToolCall(name, a, b) == [IdleTool EXCEPT !.name = name, !.a = a, !.b = b]

\* What a tool handed to its caller: a dictionary or a text, or an exception
\* that left the tool.
NoResult == [kind |-> "pending", type |-> "", error |-> FALSE, msg |-> "", id |-> NoField,
             node |-> 0]
ErrDict(msg, node) == [kind |-> "returned", type |-> "dict", error |-> TRUE, msg |-> msg,
                       id |-> NoField, node |-> node]
ErrText(msg) == [kind |-> "returned", type |-> "str", error |-> TRUE, msg |-> msg,
                 id |-> NoField, node |-> 0]
OkText(msg) == [kind |-> "returned", type |-> "str", error |-> FALSE, msg |-> msg,
                id |-> NoField, node |-> 0]
Success(id) == [kind |-> "returned", type |-> "dict", error |-> FALSE, msg |-> "success",
                id |-> id, node |-> 0]
Raised(exc) == [kind |-> "raised", type |-> "", error |-> TRUE, msg |-> exc, id |-> NoField,
                node |-> 0]

\* interfaces, idx: the list being scanned and the position of the detail
\* being fetched; iface_a: the first allocation's result; details, nodes:
\* get_lab_topology's first two fetches ("dict" or "other").  History:
\* passed, the scan went past an interface that was free (see Eligible);
\* allocA and allocB, how each allocation ended ("ok", "error"), and
\* allocErr, the error dictionary the failed one returned.
NoLoc == [interfaces |-> <<>>, idx |-> 0, passed |-> FALSE, iface_a |-> 0,
          details |-> "", nodes |-> "", allocA |-> "", allocB |-> "", allocErr |-> NoResult]

\* utils.check_auth(): an error dictionary while no client is installed,
\* None (here FALSE) afterwards
CheckAuthFails == cml_client = 0
CheckAuthError == ErrDict("not_initialized", 0)

\* utils.handle_api_error(operation, e): the exception as an error dictionary
HandleApiError(operation) == ErrDict(operation, 0)

\* ------------------------------------------------------------------ Init
Init ==
    /\ token = [s \in {} |-> NoToken]
    /\ cml_client = 0
    /\ reauthFailed = {}
    /\ loggedIn = {}
    /\ tool = [t \in Tasks |-> IdleTool]
    /\ tpc = [t \in Tasks |-> "idle"]
    /\ loc = [t \in Tasks |-> NoLoc]
    /\ result = [t \in Tasks |-> NoResult]
    /\ touched = [t \in Tasks |-> {}]
    /\ rpc = [t \in Tasks |-> "none"]
    /\ aret = [t \in Tasks |-> ""]
    /\ req = [t \in Tasks |-> NoRequest]
    /\ sess = [t \in Tasks |-> 0]
    /\ out = [t \in Tasks |-> NoOut]
    /\ gh = [t \in Tasks |-> NoGh]

\* The CMLAuth objects still referenced once task t has let go of its own:
\* the global client and the objects other tasks' calls are running on.
\* An object nobody references is gone.
Referenced(t, client) ==
    ({client} \cup {sess[u] : u \in {v \in Tasks \ {t} :
                                        \/ rpc[v] \notin {"none", "start", "done"}
                                        \/ tool[v].name = "initialize_client" /\ rpc[v] = "done"}})
        \ {0}
Collect(t, client) ==
    /\ token' = [s \in DOMAIN token \cap Referenced(t, client) |-> token[s]]
    /\ reauthFailed' = reauthFailed \cap Referenced(t, client)
    /\ loggedIn' = loggedIn \cap Referenced(t, client)

\* One tool invocation at a time.
AllIdle == \A u \in Tasks : tpc[u] = "idle"

\* The tool calls get_client().request(...): control enters request().
Call(t, label, r) ==
    /\ tpc' = [tpc EXCEPT ![t] = label]
    /\ rpc' = [rpc EXCEPT ![t] = "start"]
    /\ req' = [req EXCEPT ![t] = r]
    /\ gh' = [gh EXCEPT ![t] = NoGh]
    /\ out' = [out EXCEPT ![t] = NoOut]
    /\ UNCHANGED <<aret, sess>>

\* The tool returns res (or lets an exception out).
Finish(t, res) ==
    /\ tpc' = [tpc EXCEPT ![t] = "end"]
    /\ result' = [result EXCEPT ![t] = res]
    /\ rpc' = [rpc EXCEPT ![t] = "none"]
    /\ UNCHANGED <<aret, sess, req, gh, out>>

\* --------------------------------------------- CMLAuth.authenticate()
\* The session a call at position rpc[t] works on: request() reads the
\* global client when it is entered.
SessionOf(t) == IF rpc[t] = "start" THEN cml_client ELSE sess[t]

\* POST /api/v0/authenticate, raise_for_status(), self.token = text.strip('"').
\* Reached from initialize_client, from request()'s lazy login and from its
\* 401 branch.
LoginCall(t) ==
    /\ \/ rpc[t] = "start" /\ ~Truthy(token[cml_client])
       \/ rpc[t] \in {"relogin", "init"}
    /\ LET s == SessionOf(t)
           from == rpc[t]
       IN \E st \in LoginStatuses :
            IF Is2xx(st)
            THEN \E text \in LoginBodies :
                   /\ token' = [token EXCEPT ![s] = TokenAfterLogin(@, text)]
                   /\ rpc' = [rpc EXCEPT ![t] = "authok"]
                   /\ aret' = [aret EXCEPT ![t] =
                                 CASE from = "start" -> "send1"
                                   [] from = "relogin" -> "send2"
                                   [] OTHER -> "init"]
                   /\ gh' = [gh EXCEPT ![t].logins = @ + 1,
                                       ![t].loginBody = text,
                                       ![t].lazy = IF from = "start" THEN "ok" ELSE @,
                                       ![t].relogin = IF from = "relogin" THEN "ok" ELSE @]
                   /\ loggedIn' = loggedIn \cup {s}
                   /\ UNCHANGED <<out, reauthFailed>>
            ELSE /\ token' = [token EXCEPT ![s] = TokenAfterFailedLogin(@)]
                 /\ rpc' = [rpc EXCEPT ![t] = "done"]
                 /\ out' = [out EXCEPT ![t] = RaiseOut(st)]
                 /\ gh' = [gh EXCEPT ![t].logins = @ + 1,
                                     ![t].lazy = IF from = "start" THEN "fail" ELSE @,
                                     ![t].relogin = IF from = "relogin" THEN "fail" ELSE @]
                 /\ reauthFailed' = IF from = "relogin" THEN reauthFailed \cup {s}
                                    ELSE reauthFailed
                 /\ UNCHANGED <<aret, loggedIn>>
    /\ sess' = [sess EXCEPT ![t] = SessionOf(t)]
    /\ UNCHANGED <<cml_client, toolVars, touched, req>>

\* GET /api/v0/authok inside try/except, then `return self.token`.
AuthCheck(t) ==
    /\ rpc[t] = "authok"
    /\ \E st \in Statuses :
         IF AuthCheckRaises(st)
         THEN /\ rpc' = [rpc EXCEPT ![t] = "done"]
              /\ out' = [out EXCEPT ![t] = RaiseOut(st)]
              /\ gh' = [gh EXCEPT ![t].lazy = IF aret[t] = "send1" THEN "fail" ELSE @,
                                  ![t].relogin = IF aret[t] = "send2" THEN "fail" ELSE @,
                                  ![t].check = "fail"]
         ELSE /\ rpc' = [rpc EXCEPT ![t] = IF aret[t] = "init" THEN "done" ELSE aret[t]]
              /\ out' = [out EXCEPT ![t] = IF aret[t] = "init" THEN OkOut(200, JNull) ELSE @]
              /\ gh' = [gh EXCEPT ![t].authRet = token[sess[t]],
                                  ![t].check = IF Is2xx(st) THEN "ok" ELSE "fail"]
    /\ UNCHANGED <<sessionVars, toolVars, touched, aret, req, sess>>

\* ------------------------------------------------- what the server says
IdVals == {NoField, Null, "", "x1", "x2"}
CreateBodies == {JObj(v) : v \in IdVals} \cup {JList(<<>>), JBad}

\* Interface identifiers are 1..MaxIfaces; the server lists them ascending
\* or descending.
IfaceLists ==
    {<<>>} \cup {[i \in 1..n |-> i] : n \in 1..MaxIfaces}
           \cup {[i \in 1..n |-> n + 1 - i] : n \in 2..MaxIfaces}

\* "1 2 3": the words separated by blanks (0 is a blank)
RECURSIVE Spaced(_)
Spaced(l) == IF Len(l) <= 1 THEN l ELSE <<Head(l), 0>> \o Spaced(Tail(l))

FullList == [i \in 1..MaxIfaces |-> i]
ListBodies ==
    {JList(l) : l \in IfaceLists}
        \cup {JKeys(<<>>), JKeys(FullList), JStr(<<>>), JStr(Spaced(FullList)), JNull, JBad}

Slots == {NoField, "0", "1"}
DetailBodies ==
    {JDetail(sl, ty, cn) : sl \in Slots, ty \in {"physical", "loopback"},
                           cn \in {"true", "false"}}
        \cup {JDetail("1", "physical", NoField), JList(<<>>), JBad}

\* lab details, node collection, link collection; a list's element is an id,
\* 0 for an object without id, -1 for something that is no object
TopoBodies == {JKeys(<<>>), JErr, JList(<<1, 0>>), JList(<<-1>>), JStr(<<>>), JBad}

Bodies(ep) ==
    CASE ep.kind \in {"labs", "nodes", "links"} -> CreateBodies
      [] ep.kind = "ifaces" -> ListBodies
      [] ep.kind = "iface" -> DetailBodies
      [] ep.kind \in {"lab", "labnodes", "lablinks"} -> TopoBodies
      [] OTHER -> {JNull}

\* -------------------------------------------------- CMLAuth.request()
\* The call as it goes on the wire.
Wire(r, tk) ==
    [method |-> r.method, endpoint |-> r.endpoint, headers |-> Headers(r.headers, tk),
     json |-> r.json]

\* self.client.request(method, endpoint, **kwargs) with the bearer header of
\* the moment: the first send (after the `if not self.token` test, or after
\* the lazy login returned) or the one retry; then the 401 test and
\* raise_for_status().
SendCall(t) ==
    /\ \/ rpc[t] = "start" /\ Truthy(token[cml_client])
       \/ rpc[t] \in {"send1", "send2"}
    /\ LET s == SessionOf(t)
           which == IF rpc[t] = "send2" THEN 2 ELSE 1
       IN /\ sess' = [sess EXCEPT ![t] = s]
          /\ touched' = [touched EXCEPT ![t] = @ \cup {req[t].stage}]
          /\ \E st \in Statuses :
               \E body \in (IF Is2xx(st) THEN Bodies(req[t].endpoint) ELSE {JNull}) :
                 /\ gh' = [gh EXCEPT ![t].sent = Append(@, Wire(req[t], token[s])),
                                     ![t].sts = Append(@, st),
                                     ![t].check = "none"]
                 /\ IF st # TransportFailure /\ NextAfterSend(which, st) = "relogin"
                    THEN /\ rpc' = [rpc EXCEPT ![t] = "relogin"]
                         /\ UNCHANGED out
                    ELSE /\ rpc' = [rpc EXCEPT ![t] = "done"]
                         /\ out' = [out EXCEPT ![t] =
                                      IF Is2xx(st) THEN OkOut(st, body) ELSE RaiseOut(st)]
    /\ UNCHANGED <<sessionVars, toolVars, aret, req>>

\* ------------------------------------------------- initialize_client
\* The new object takes the first identity no live object has.
NewSession == CHOOSE s \in 1..(NumTasks + 1) :
                 s \notin DOMAIN token /\ \A r \in 1..(s - 1) : r \in DOMAIN token

\* CMLAuth(base_url, username, password, verify_ssl), then authenticate()
\* on the new object.
StartInitialize(t) ==
    /\ AllIdle
    /\ tool' = [tool EXCEPT ![t] = ToolCall("initialize_client", 0, 0)]
    /\ tpc' = [tpc EXCEPT ![t] = "authenticate"]
    /\ rpc' = [rpc EXCEPT ![t] = "init"]
    /\ sess' = [sess EXCEPT ![t] = NewSession]
    /\ token' = [s \in DOMAIN token \cup {NewSession} |->
                    IF s \in DOMAIN token THEN token[s] ELSE InitialToken]
    /\ gh' = [gh EXCEPT ![t] = NoGh]
    /\ out' = [out EXCEPT ![t] = NoOut]
    /\ UNCHANGED <<cml_client, reauthFailed, loggedIn, loc, result, touched, aret, req>>

\* faulty variant: the new object is installed whether or not its login worked
ClientAfterInitAlways(cur, new, o) == new

\* set_client(cml_auth) runs only after authenticate() returned
ClientAfterInit(cur, new, o) == IF o.kind = "ok" THEN new ELSE cur

\* the try/except of initialize_client, auth.py lines 34-42
InitializeResult(o) ==
    IF o.kind = "ok" THEN OkText("Successfully authenticated")
    ELSE ErrText("Error connecting to CML")

InitializeCont(t) ==
    /\ tool[t].name = "initialize_client" /\ rpc[t] = "done"
    /\ cml_client' = ClientAfterInit(cml_client, sess[t], out[t])
    /\ Collect(t, cml_client')
    /\ Finish(t, InitializeResult(out[t]))
    /\ UNCHANGED <<tool, loc, touched>>

\* the first initialize_client of the process
StartFirstInitialize(t) == cml_client = 0 /\ StartInitialize(t)

\* ------------------------------------- a direct caller of request()
\* Code that holds the client and calls request() itself, with headers of
\* its own; an exception of request() reaches it.
DirectCall(t, m, h) ==
    /\ tpc[t] = "idle"
    /\ cml_client # 0
    /\ tool' = [tool EXCEPT ![t] = [ToolCall("request", 0, 0) EXCEPT !.headers = h]]
    /\ Call(t, "request", Request(m, Endpoint("raw", 0, 0, ""), h, NoJson, "raw"))
    /\ touched' = [touched EXCEPT ![t] = {}]
    /\ UNCHANGED <<sessionVars, loc, result>>

\* one direct call while nothing else is in progress
StartDirect(t) ==
    /\ AllIdle
    /\ \E m \in {"GET", "PUT"}, h \in CallerHeaders : DirectCall(t, m, h)

\* a direct call while other invocations may be suspended at their awaits
StartConcurrent(t) ==
    /\ \A u \in Tasks : tool[u].name \in {"idle", "request"}
    /\ DirectCall(t, "GET", NoHeaders)

DirectCont(t) ==
    /\ tool[t].name = "request" /\ rpc[t] = "done"
    /\ Finish(t, IF out[t].kind = "ok" THEN OkText("response") ELSE Raised(out[t].exc))
    /\ UNCHANGED <<sessionVars, tool, loc, touched>>

\* request() returned or raised to a caller that is itself over with that:
\* nothing of the invocation is left.
ConcurrentCont(t) ==
    /\ tool[t].name = "request" /\ rpc[t] = "done"
    /\ tool' = [tool EXCEPT ![t] = IdleTool]
    /\ tpc' = [tpc EXCEPT ![t] = "idle"]
    /\ rpc' = [rpc EXCEPT ![t] = "none"]
    /\ aret' = [aret EXCEPT ![t] = ""]
    /\ req' = [req EXCEPT ![t] = NoRequest]
    /\ sess' = [sess EXCEPT ![t] = 0]
    /\ out' = [out EXCEPT ![t] = NoOut]
    /\ gh' = [gh EXCEPT ![t] = NoGh]
    /\ Collect(t, cml_client)
    /\ UNCHANGED <<cml_client, loc, result, touched>>

\* ---------------------------------------------------------- create_lab
\* `not lab_id`: a missing key, null and the empty string are all falsy
FalsyId(v) == v \in {NoField, Null, ""}

\* json() raised, or .get() was called on something that is no dict
NotADict(body) == body.shape # "dict"

\* faulty variant: the identifier is not looked at
CreateLabResultUnchecked(o) ==
    IF o.kind = "raise" \/ NotADict(o.body) THEN HandleApiError("create_lab")
    ELSE Success(o.body.id)

\* lab_lifecycle.py lines 39-54
CreateLabResult(o) ==
    IF o.kind = "raise" \/ NotADict(o.body) THEN HandleApiError("create_lab")
    ELSE IF FalsyId(o.body.id) THEN ErrDict("Failed to create lab, no lab ID returned", 0)
    ELSE Success(o.body.id)

StartCreateLab(t) ==
    /\ AllIdle
    /\ tool' = [tool EXCEPT ![t] = ToolCall("create_lab", 0, 0)]
    /\ IF CheckAuthFails
       THEN Finish(t, CheckAuthError)
       ELSE \E d \in {"", "d"} :
              Call(t, "post", Request("POST", Endpoint("labs", 0, 0, ""), NoHeaders,
                                      [title |-> "t", description |-> d], "create"))
    /\ touched' = [touched EXCEPT ![t] = {}]
    /\ UNCHANGED <<sessionVars, loc>>
    /\ IF CheckAuthFails THEN TRUE ELSE UNCHANGED result

CreateLabCont(t) ==
    /\ tool[t].name = "create_lab" /\ rpc[t] = "done"
    /\ Finish(t, CreateLabResult(out[t]))
    /\ UNCHANGED <<sessionVars, tool, loc, touched>>

\* ------------------------------------------------- start_lab, stop_lab
\* faulty variant: no try block around the request
LabStateResultNoTry(name, o) ==
    IF o.kind = "ok" THEN OkText(name) ELSE Raised(o.exc)

\* lab_lifecycle.py lines 71-75 and 92-96
LabStateResult(name, o) ==
    IF o.kind = "ok" THEN OkText(name) ELSE ErrText(name)

StartLabState(t) ==
    /\ AllIdle
    /\ \E name \in {"start_lab", "stop_lab"} :
         /\ tool' = [tool EXCEPT ![t] = ToolCall(name, 0, 0)]
         /\ IF CheckAuthFails
            THEN Finish(t, ErrText(CheckAuthError.msg))
            ELSE Call(t, "put",
                      Request("PUT", Endpoint(IF name = "start_lab" THEN "start" ELSE "stop",
                                              0, 0, ""), NoHeaders, NoJson, "state"))
    /\ touched' = [touched EXCEPT ![t] = {}]
    /\ UNCHANGED <<sessionVars, loc>>
    /\ IF CheckAuthFails THEN TRUE ELSE UNCHANGED result

LabStateCont(t) ==
    /\ tool[t].name \in {"start_lab", "stop_lab"} /\ rpc[t] = "done"
    /\ Finish(t, LabStateResult(tool[t].name, out[t]))
    /\ UNCHANGED <<sessionVars, tool, loc, touched>>

\* ------------------------------------------------------------ add_node
\* an optional argument's value
The(opt) == CHOOSE v \in opt : TRUE

\* faulty variant: ram is sent as 0 when the caller gives none
NodeDataRamSentinel(params, ram, cpu) ==
    LET base == [label |-> "R1", node_definition |-> "iosv", x |-> 0, y |-> 0,
                 parameters |-> IF params = {} THEN NoJson ELSE The(params),
                 tags |-> <<>>, hide_links |-> FALSE,
                 ram |-> IF ram # {} THEN The(ram) ELSE 0]
    IN IF cpu # {} THEN base @@ [cpu_limit |-> The(cpu)] ELSE base

\* topology.py lines 50-65: the payload of POST labs/{id}/nodes
NodeData(params, ram, cpu) ==
    LET base == [label |-> "R1", node_definition |-> "iosv", x |-> 0, y |-> 0,
                 parameters |-> IF params = {} THEN NoJson ELSE The(params),
                 tags |-> <<>>, hide_links |-> FALSE]
        withRam == IF ram # {} THEN base @@ [ram |-> The(ram)] ELSE base
    IN IF cpu # {} THEN withRam @@ [cpu_limit |-> The(cpu)] ELSE withRam

\* topology.py lines 68-70
NodesEndpoint(populate) ==
    Endpoint("nodes", 0, 0, IF populate THEN "populate_interfaces=true" ELSE "")

\* topology.py lines 82-95
AddNodeResult(o) ==
    IF o.kind = "raise" \/ NotADict(o.body) THEN HandleApiError("add_node")
    ELSE IF FalsyId(o.body.id) THEN ErrDict("Failed to create node, no node ID returned", 0)
    ELSE Success(o.body.id)

StartAddNode(t) ==
    /\ AllIdle
    /\ \E populate \in BOOLEAN, ram \in {{}, {0}, {512}}, cpu \in {{}, {50}},
          params \in {{}, {NoJson}, {[k |-> "v"]}} :
         /\ tool' = [tool EXCEPT ![t] = [ToolCall("add_node", 0, 0) EXCEPT
                                           !.ram = ram, !.cpu = cpu, !.params = params,
                                           !.populate = populate]]
         /\ IF CheckAuthFails
            THEN Finish(t, CheckAuthError)
            ELSE Call(t, "post", Request("POST", NodesEndpoint(populate), JsonHeaders,
                                         NodeData(params, ram, cpu), "create"))
    /\ touched' = [touched EXCEPT ![t] = {}]
    /\ UNCHANGED <<sessionVars, loc>>
    /\ IF CheckAuthFails THEN TRUE ELSE UNCHANGED result

AddNodeCont(t) ==
    /\ tool[t].name = "add_node" /\ rpc[t] = "done"
    /\ Finish(t, AddNodeResult(out[t]))
    /\ UNCHANGED <<sessionVars, tool, loc, touched>>

\* ------------------------------------ _create_link_helper, create_link_v3
LinkRequest(a, b) ==
    Request("POST", Endpoint("links", 0, 0, ""), JsonHeaders,
            [src_int |-> a, dst_int |-> b], "link")

\* topology.py lines 185-200
CreateLinkResult(o) ==
    IF o.kind = "raise" \/ NotADict(o.body) THEN HandleApiError("create_link")
    ELSE IF FalsyId(o.body.id) THEN ErrDict("Failed to create link, no link ID returned", 0)
    ELSE Success(o.body.id)

StartCreateLinkV3(t) ==
    /\ AllIdle
    /\ \E a \in {1, 2}, b \in {1, 2} :
         /\ tool' = [tool EXCEPT ![t] = ToolCall("create_link_v3", a, b)]
         /\ IF CheckAuthFails
            THEN Finish(t, CheckAuthError)
            ELSE Call(t, "link", LinkRequest(a, b))
    /\ touched' = [touched EXCEPT ![t] = {}]
    /\ UNCHANGED <<sessionVars, loc>>
    /\ IF CheckAuthFails THEN TRUE ELSE UNCHANGED result

CreateLinkV3Cont(t) ==
    /\ tool[t].name = "create_link_v3" /\ rpc[t] = "done"
    /\ Finish(t, CreateLinkResult(out[t]))
    /\ UNCHANGED <<sessionVars, tool, loc, touched>>

\* ------------------------------ _find_available_interface, link_nodes
\* "a b".split(): the words, blanks dropped
Split(items) == SelectSeq(items, LAMBDA w : w # 0)

\* topology.py lines 118-124: the identifiers to scan
InterfacesOf(body) ==
    CASE body.shape = "str" -> Split(body.items)
      [] body.shape \in {"list", "dict"} -> body.items
      [] OTHER -> <<>>

\* interface_data.get("slot", -1)
SlotOf(det) == IF det.slot = NoField THEN "-1" ELSE det.slot

\* faulty variant: the loopback slot is not skipped
SkipsLoopbackNever(det) == FALSE

\* `if slot == 0: continue`, topology.py lines 140-143
SkipsLoopback(det) == SlotOf(det) = "0"

\* topology.py lines 146-147
IsAvailable(det) == det.type = "physical" /\ det.conn = "false"

\* An interface a data link may take: not in slot 0, physical, unconnected.
Eligible(det) == det.slot # "0" /\ det.type = "physical" /\ det.conn = "false"

ListRequest(node, stage) ==
    Request("GET", Endpoint("ifaces", node, 0, "operational=true"), NoHeaders, NoJson, stage)
DetailRequest(iface, stage) ==
    Request("GET", Endpoint("iface", 0, iface, "operational=true"), NoHeaders, NoJson, stage)

\* `for interface_id in interfaces`: in the order returned
ScanOrder(l) == l

\* `if not interfaces`
NoInterfaces(l) == l = <<>>

\* What the allocation for `node` does with the answer to its list request:
\* "error" with the dictionary it returns, or "fetch" with the list to scan.
AfterList(node, o) ==
    IF o.kind = "raise" \/ o.body.shape = "bad"
    THEN [do |-> "error", err |-> HandleApiError("find_available_interface"), list |-> <<>>]
    ELSE IF NoInterfaces(InterfacesOf(o.body))
    THEN [do |-> "error", err |-> ErrDict("No interfaces found for node", node), list |-> <<>>]
    ELSE [do |-> "fetch", err |-> NoResult, list |-> ScanOrder(InterfacesOf(o.body))]

\* faulty variant: a scan that found nothing falls back to the last interface
AfterDetailFallback(node, l, idx, o) ==
    IF o.kind = "raise" \/ NotADict(o.body)
    THEN [do |-> "error", err |-> HandleApiError("find_available_interface")]
    ELSE IF ~SkipsLoopback(o.body) /\ IsAvailable(o.body)
    THEN [do |-> "return", err |-> NoResult]
    ELSE IF idx < Len(l)
    THEN [do |-> "fetch", err |-> NoResult]
    ELSE [do |-> "return", err |-> NoResult]

\* ... and with the detail record of interface l[idx]: "return" l[idx],
\* "fetch" the next one, or "error".  topology.py lines 126-154
AfterDetail(node, l, idx, o) ==
    IF o.kind = "raise" \/ NotADict(o.body)
    THEN [do |-> "error", err |-> HandleApiError("find_available_interface")]
    ELSE IF ~SkipsLoopback(o.body) /\ IsAvailable(o.body)
    THEN [do |-> "return", err |-> NoResult]
    ELSE IF idx < Len(l)
    THEN [do |-> "fetch", err |-> NoResult]
    ELSE [do |-> "error", err |-> ErrDict("No available physical interface found for node", node)]

StartLinkNodes(t) ==
    /\ AllIdle
    /\ \E a \in NodeIds : \E b \in NodeIds \ {a} :
         /\ tool' = [tool EXCEPT ![t] = ToolCall("link_nodes", a, b)]
         /\ IF CheckAuthFails
            THEN Finish(t, CheckAuthError)
            ELSE Call(t, "listA", ListRequest(a, "listA"))
    /\ touched' = [touched EXCEPT ![t] = {}]
    /\ loc' = [loc EXCEPT ![t] = NoLoc]
    /\ UNCHANGED sessionVars
    /\ IF CheckAuthFails THEN TRUE ELSE UNCHANGED result

\* The allocation in progress is for node A or for node B.
ForA(t) == tpc[t] \in {"listA", "detA"}
AllocNode(t) == IF ForA(t) THEN tool[t].a ELSE tool[t].b
DetailStage(t) == IF ForA(t) THEN "detA" ELSE "detB"

\* faulty variant: the link is attempted whatever the allocations said
AllocFailedNever(r) == FALSE

\* `isinstance(interface_a, dict) and "error" in interface_a`
AllocFailed(r) == r.do = "error"

\* link_nodes after an allocation ended with r (lines 215-226): return the
\* error, allocate for B, or create the link.
AllocEnded(t, r, id) ==
    LET how == IF r.do = "error" THEN "error" ELSE "ok"
        noted == [loc[t] EXCEPT !.allocA = IF ForA(t) THEN how ELSE @,
                                !.allocB = IF ForA(t) THEN @ ELSE how,
                                !.allocErr = IF r.do = "error" THEN r.err ELSE @]
    IN IF AllocFailed(r)
       THEN /\ Finish(t, r.err)
            /\ loc' = [loc EXCEPT ![t] = noted]
       ELSE IF ForA(t)
       THEN /\ Call(t, "listB", ListRequest(tool[t].b, "listB"))
            /\ loc' = [loc EXCEPT ![t] = [noted EXCEPT !.iface_a = id, !.interfaces = <<>>]]
            /\ UNCHANGED result
       ELSE /\ Call(t, "link", LinkRequest(loc[t].iface_a, id))
            /\ loc' = [loc EXCEPT ![t] = noted]
            /\ UNCHANGED result

\* The answer to the list request of an allocation.
LinkNodesListed(t) ==
    /\ tool[t].name = "link_nodes" /\ rpc[t] = "done" /\ tpc[t] \in {"listA", "listB"}
    /\ LET r == AfterList(AllocNode(t), out[t])
       IN IF r.do = "fetch"
          THEN /\ Call(t, DetailStage(t), DetailRequest(r.list[1], DetailStage(t)))
               /\ loc' = [loc EXCEPT ![t].interfaces = r.list, ![t].idx = 1,
                                     ![t].passed = FALSE]
               /\ UNCHANGED result
          ELSE AllocEnded(t, r, 0)
    /\ UNCHANGED <<sessionVars, tool, touched>>

\* The answer to a detail request of an allocation.
LinkNodesDetail(t) ==
    /\ tool[t].name = "link_nodes" /\ rpc[t] = "done" /\ tpc[t] \in {"detA", "detB"}
    /\ LET l == loc[t].interfaces
           i == loc[t].idx
           r == AfterDetail(AllocNode(t), l, i, out[t])
       IN IF r.do = "fetch"
          THEN /\ Call(t, tpc[t], DetailRequest(l[i + 1], tpc[t]))
               /\ loc' = [loc EXCEPT ![t].idx = i + 1,
                                     ![t].passed = @ \/ (out[t].kind = "ok" /\ Eligible(out[t].body))]
               /\ UNCHANGED result
          ELSE AllocEnded(t, r, l[i])
    /\ UNCHANGED <<sessionVars, tool, touched>>

\* The answer to the POST of the link.
LinkNodesLinked(t) ==
    /\ tool[t].name = "link_nodes" /\ rpc[t] = "done" /\ tpc[t] = "link"
    /\ Finish(t, CreateLinkResult(out[t]))
    /\ UNCHANGED <<sessionVars, tool, loc, touched>>

\* ---------------------------------------------------- get_lab_topology
\* _get_lab_details (lines 25-29): "error" for the helper's own error
\* dictionary, "error_field" for a response that has an "error" key, "dict"
\* for any other dictionary, "other" for a value that is no dictionary.
FetchedDetails(o) ==
    IF o.kind = "raise" \/ o.body.shape = "bad" THEN "error"
    ELSE IF o.body.shape = "dict" THEN (IF o.body.err THEN "error_field" ELSE "dict")
    ELSE "other"

\* _get_lab_nodes, _get_lab_links (lines 41-57, 69-85): a list is turned
\* into a dictionary by its elements' ids; an element that is no object
\* raises inside the helper.
FetchedCollection(o) ==
    IF o.kind = "raise" \/ o.body.shape = "bad" THEN "error"
    ELSE IF o.body.shape = "list"
    THEN (IF \E i \in 1..Len(o.body.items) : o.body.items[i] = -1 THEN "error" ELSE "dict")
    ELSE IF o.body.shape = "dict" THEN (IF o.body.err THEN "error_field" ELSE "dict")
    ELSE "other"

\* lines 118-146: .get() and .items() raise on what is no dictionary, and
\* the tool's `except Exception` turns that into a text
Rendered(details, nodes, links) ==
    IF details = "dict" /\ nodes = "dict" /\ links = "dict" THEN OkText("topology")
    ELSE ErrText("Error getting lab topology")

TopologyRequest(kind) == Request("GET", Endpoint(kind, 0, 0, ""), NoHeaders, NoJson, kind)

StartTopology(t) ==
    /\ AllIdle
    /\ tool' = [tool EXCEPT ![t] = ToolCall("get_lab_topology", 0, 0)]
    /\ IF CheckAuthFails
       THEN Finish(t, ErrDict(CheckAuthError.msg, 0))
       ELSE Call(t, "lab", TopologyRequest("lab"))
    /\ touched' = [touched EXCEPT ![t] = {}]
    /\ loc' = [loc EXCEPT ![t] = NoLoc]
    /\ UNCHANGED sessionVars
    /\ IF CheckAuthFails THEN TRUE ELSE UNCHANGED result

TopologyCont(t) ==
    /\ tool[t].name = "get_lab_topology" /\ rpc[t] = "done"
    /\ LET got == IF tpc[t] = "lab" THEN FetchedDetails(out[t]) ELSE FetchedCollection(out[t])
       IN IF got \in {"error", "error_field"}
          THEN /\ Finish(t, ErrText(IF got = "error" THEN tpc[t] ELSE "error field"))
               /\ UNCHANGED loc
          ELSE CASE tpc[t] = "lab" ->
                      /\ Call(t, "labnodes", TopologyRequest("labnodes"))
                      /\ loc' = [loc EXCEPT ![t].details = got]
                      /\ UNCHANGED result
                 [] tpc[t] = "labnodes" ->
                      /\ Call(t, "lablinks", TopologyRequest("lablinks"))
                      /\ loc' = [loc EXCEPT ![t].nodes = got]
                      /\ UNCHANGED result
                 [] OTHER ->
                      /\ Finish(t, Rendered(loc[t].details, loc[t].nodes, got))
                      /\ UNCHANGED loc
    /\ UNCHANGED <<sessionVars, tool, touched>>

\* The caller has its answer; the invocation is over.
Deliver(t) ==
    /\ tpc[t] = "end"
    /\ tool' = [tool EXCEPT ![t] = IdleTool]
    /\ tpc' = [tpc EXCEPT ![t] = "idle"]
    /\ loc' = [loc EXCEPT ![t] = NoLoc]
    /\ result' = [result EXCEPT ![t] = NoResult]
    /\ touched' = [touched EXCEPT ![t] = {}]
    /\ rpc' = [rpc EXCEPT ![t] = "none"]
    /\ aret' = [aret EXCEPT ![t] = ""]
    /\ req' = [req EXCEPT ![t] = NoRequest]
    /\ sess' = [sess EXCEPT ![t] = 0]
    /\ out' = [out EXCEPT ![t] = NoOut]
    /\ gh' = [gh EXCEPT ![t] = NoGh]
    /\ Collect(t, cml_client)
    /\ UNCHANGED cml_client

\* ------------------------------------------------------------------ Next
Next ==
    \E t \in Sequential :
        \/ LoginCall(t)
        \/ AuthCheck(t)
        \/ SendCall(t)
        \/ StartInitialize(t)
        \/ InitializeCont(t)
        \/ StartDirect(t)
        \/ DirectCont(t)
        \/ StartCreateLab(t)
        \/ CreateLabCont(t)
        \/ StartLabState(t)
        \/ LabStateCont(t)
        \/ StartAddNode(t)
        \/ AddNodeCont(t)
        \/ StartCreateLinkV3(t)
        \/ CreateLinkV3Cont(t)
        \/ StartLinkNodes(t)
        \/ LinkNodesListed(t)
        \/ LinkNodesDetail(t)
        \/ LinkNodesLinked(t)
        \/ StartTopology(t)
        \/ TopologyCont(t)
        \/ Deliver(t)

Spec == Init /\ [][Next]_vars

\* Several request() invocations on the shared client, interleaved at their
\* awaits.  A wire call and the code up to the next await is one step, taken
\* when the answer arrives; the code before a send reads self.token without
\* writing anything, so taking those reads at the answer's step reorders
\* nothing another invocation can see.  initialize_client runs before the
\* requests, until it has installed the client they share.
NextConcurrent ==
    \E t \in Tasks :
        \/ LoginCall(t)
        \/ AuthCheck(t)
        \/ SendCall(t)
        \/ StartFirstInitialize(t)
        \/ InitializeCont(t)
        \/ StartConcurrent(t)
        \/ ConcurrentCont(t)
        \/ Deliver(t)

SpecConcurrent == Init /\ [][NextConcurrent]_vars

\* ---------------------------------------------------------------------
\* Properties
\* ---------------------------------------------------------------------
\* Task t is running a caller of request() (not initialize_client, which
\* calls authenticate() directly).
InRequest(t) == tool[t].name \notin {"idle", "initialize_client"}

\* The call in progress has returned or raised.
CallOver(t) == rpc[t] \in {"done", "none"}

\* Logins of the call in progress that answered a 401.
Relogins(t) == gh[t].logins - (IF gh[t].lazy = "none" THEN 0 ELSE 1)

\* The first response of the call in progress was a 401.
First401(t) == Len(gh[t].sts) >= 1 /\ gh[t].sts[1] = Unauthorized

\* Two wire calls that differ at most in their bearer header.
SameCall(w1, w2) ==
    /\ w1.method = w2.method /\ w1.endpoint = w2.endpoint /\ w1.json = w2.json
    /\ DOMAIN w1.headers = DOMAIN w2.headers
    /\ \A h \in DOMAIN w1.headers \ {"Authorization"} : w1.headers[h] = w2.headers[h]

\* C1: within one request() call there are at most two sends and at most one
\* re-login, and both only after a first response of 401.  A call whose first
\* response was 401 logs in again exactly once; when that login succeeds the
\* same call (method, endpoint, options) is sent exactly once more, with the
\* bearer header of the token just stored, and when it fails nothing more is
\* sent and the call raises.  A 401 on the retry raises: no third send, no
\* second re-login.
C1_RetryOnce ==
    \A t \in Tasks : InRequest(t) =>
        /\ Len(gh[t].sent) <= 2
        /\ Relogins(t) <= 1
        /\ Relogins(t) = 1 => First401(t)
        /\ Len(gh[t].sent) = 2 =>
             /\ First401(t) /\ gh[t].relogin = "ok"
             /\ SameCall(gh[t].sent[1], gh[t].sent[2])
             /\ gh[t].sent[2].headers["Authorization"] = Bearer(Strip(gh[t].loginBody))
        /\ (First401(t) /\ CallOver(t)) =>
             /\ Relogins(t) = 1
             /\ gh[t].relogin = "ok" => Len(gh[t].sent) = 2
             /\ gh[t].relogin # "ok" => Len(gh[t].sent) = 1 /\ out[t].kind = "raise"
             /\ (Len(gh[t].sts) = 2 /\ gh[t].sts[2] = Unauthorized) =>
                    out[t].kind = "raise" /\ out[t].status = Unauthorized

\* 401, re-login, 401 again: the call is over and has raised.
C1_Witness ==
    \E t \in Tasks :
        /\ InRequest(t) /\ rpc[t] = "done"
        /\ gh[t].sts = <<Unauthorized, Unauthorized>>
        /\ Len(gh[t].sent) = 2 /\ Relogins(t) = 1
        /\ out[t].kind = "raise"

\* Task t sends to the target endpoint in this step; the call it sends.
Sends(t) == Len(gh'[t].sent) = Len(gh[t].sent) + 1
LastSent(t) == gh'[t].sent[Len(gh'[t].sent)]

\* C2: every call request() sends carries Authorization = "Bearer " + the
\* session's stored token at the moment of sending, whatever Authorization
\* header the caller supplied; a request() entered while no token is held
\* logs in before it sends anything, and sends nothing when that login fails.
C2_BearerHeader ==
    /\ [][\A t \in Tasks : Sends(t) =>
            LastSent(t).headers["Authorization"] = Bearer(token[sess'[t]].val)]_vars
    /\ [][\A t \in Tasks :
            (rpc[t] = "start" /\ rpc'[t] # "start" /\ ~Truthy(token[cml_client])) =>
                (gh'[t].logins = 1 /\ gh'[t].sent = <<>>)]_vars
    /\ [](\A t \in Tasks : gh[t].lazy = "fail" =>
            (gh[t].sent = <<>> /\ CallOver(t) /\ out[t].kind = "raise"))

\* A caller supplied an Authorization header of its own, and the call went
\* out with the session's token instead.
C2_Witness ==
    \E t \in Tasks :
        /\ req[t].headers = ForgedHeaders
        /\ Len(gh[t].sent) = 1
        /\ gh[t].sent[1].headers["Authorization"] = Bearer(token[sess[t]].val)
        /\ gh[t].sent[1].headers["Authorization"] # ForgedHeaders["Authorization"]

\* Task t attempts a login in this step; its request() returns normally in
\* this step.
LoginAttempt(t) == gh'[t].logins = gh[t].logins + 1
ReturnsOk(t) == rpc[t] # "done" /\ rpc'[t] = "done" /\ out'[t].kind = "ok"

\* C3 as stated: once a 401-triggered login has failed on a session, no
\* request() on it logs in again and none returns normally.
C3_FailedIsTerminal ==
    [][\A t \in Tasks :
          (InRequest(t) /\ SessionOf(t) \in reauthFailed) =>
              ~(LoginAttempt(t) \/ ReturnsOk(t))]_vars

\* C3, amended: a failed 401-triggered login ends that request() call at
\* once, raising; the stored token keeps its value, nothing more is sent and
\* no further login is attempted in the call.  (The session keeps no failed
\* status: later calls send with the retained token and log in again on 401.)
C3_FailedReloginEndsCall ==
    /\ [][\A t \in Tasks :
            (rpc[t] = "relogin" /\ rpc'[t] # "authok") =>
                /\ rpc'[t] = "done" /\ out'[t].kind = "raise"
                /\ token' = token
                /\ gh'[t].sent = gh[t].sent]_vars
    /\ [](\A t \in Tasks : (InRequest(t) /\ gh[t].relogin = "fail") =>
            /\ CallOver(t) /\ out[t].kind = "raise"
            /\ Len(gh[t].sent) = 1 /\ Relogins(t) = 1
            /\ sess[t] \in reauthFailed)

\* A re-login has just failed: the call is over, the old token is still held.
C3_Witness ==
    \E t \in Tasks :
        /\ rpc[t] = "done" /\ gh[t].relogin = "fail"
        /\ sess[t] \in reauthFailed
        /\ Truthy(token[sess[t]])

\* Stages of link_nodes that come after the allocation for node A.
AfterA == {"listB", "detB", "link"}

\* C4: link_nodes sends no POST to the link endpoint once the allocation for
\* A or for B has failed, and returns that allocation's error; once A's
\* allocation has failed nothing is requested for B either.
C4_NoLinkAfterFailedAllocation ==
    \A t \in Tasks : tool[t].name = "link_nodes" =>
        /\ loc[t].allocA = "error" =>
             /\ touched[t] \cap AfterA = {}
             /\ tpc[t] = "end" /\ result[t] = loc[t].allocErr /\ result[t].error
        /\ loc[t].allocB = "error" =>
             /\ "link" \notin touched[t]
             /\ tpc[t] = "end" /\ result[t] = loc[t].allocErr /\ result[t].error

\* Node A had interfaces but none was free: link_nodes is over, with the
\* error, after asking only about A.
C4_Witness ==
    \E t \in Tasks :
        /\ tool[t].name = "link_nodes" /\ tpc[t] = "end"
        /\ loc[t].allocA = "error" /\ loc[t].idx >= 2
        /\ touched[t] = {"listA", "detA"}
        /\ result[t] = ErrDict("No available physical interface found for node", tool[t].a)

\* An allocation of task t returns an interface in this step, and which.
ReturnsIface(t) ==
    /\ tool[t].name = "link_nodes" /\ rpc[t] = "done"
    /\ \/ tpc[t] \in {"listA", "detA"} /\ tpc'[t] = "listB"
       \/ tpc[t] \in {"listB", "detB"} /\ tpc'[t] = "link"
ReturnedIface(t) == IF tpc'[t] = "listB" THEN loc'[t].iface_a ELSE req'[t].json.dst_int

\* The detail record of the interface at the scan's position has arrived.
DetailArrived(t) ==
    /\ tool[t].name = "link_nodes" /\ rpc[t] = "done" /\ tpc[t] \in {"detA", "detB"}
    /\ out[t].kind = "ok" /\ out[t].body.shape = "dict"

\* The answer to the list request has arrived and it is a list to scan.
ListArrived(t) ==
    /\ tool[t].name = "link_nodes" /\ rpc[t] = "done" /\ tpc[t] \in {"listA", "listB"}
    /\ out[t].kind = "ok" /\ out[t].body.shape # "bad"

\* C5: the allocation scans the identifiers in the order the server returned
\* them, one detail record at a time.  It returns an identifier only on the
\* arrival of a detail record that is eligible (slot not 0, type physical,
\* is_connected false); the identifier is the one of that record, no
\* eligible interface was passed over before it, and an eligible record
\* always ends the scan, so nothing is fetched after the first match.
C5_FirstEligible ==
    /\ [](\A t \in Tasks : ~loc[t].passed)
    /\ [](\A t \in Tasks : (tool[t].name = "link_nodes" /\ tpc[t] \in {"detA", "detB"}) =>
            /\ loc[t].idx \in 1..Len(loc[t].interfaces)
            /\ req[t].endpoint.iface = loc[t].interfaces[loc[t].idx])
    /\ [][\A t \in Tasks :
            /\ (ListArrived(t) /\ tpc'[t] \in {"detA", "detB"}) =>
                   (loc'[t].interfaces = InterfacesOf(out[t].body) /\ loc'[t].idx = 1)
            /\ ReturnsIface(t) =>
                   /\ DetailArrived(t) /\ Eligible(out[t].body)
                   /\ ReturnedIface(t) = loc[t].interfaces[loc[t].idx]
            /\ (DetailArrived(t) /\ Eligible(out[t].body)) => ReturnsIface(t)
            /\ (DetailArrived(t) /\ ~Eligible(out[t].body) /\ loc[t].idx < Len(loc[t].interfaces)) =>
                   (tpc'[t] = tpc[t] /\ loc'[t].idx = loc[t].idx + 1)]_vars

\* Three interfaces 1, 2, 3 were listed for node A; the first was passed as
\* not eligible and the second, the first eligible one, was returned.
C5_Witness ==
    \E t \in Tasks :
        /\ tool[t].name = "link_nodes" /\ tpc[t] = "listB"
        /\ loc[t].allocA = "ok" /\ loc[t].idx = 2 /\ loc[t].iface_a = 2
        /\ ~loc[t].passed

\* The two errors that say no interface is to be had.
NoInterfaceError(r, node) ==
    /\ r.kind = "returned" /\ r.type = "dict" /\ r.error /\ r.node = node
    /\ r.msg \in {"No interfaces found for node",
                  "No available physical interface found for node"}

\* C6: when the list of interfaces is empty, or the scan has looked at every
\* interface and found none eligible, the allocation returns no identifier:
\* it fails with a no-interface error that names the node, and link_nodes
\* returns that error.
C6_NoInterfaceError ==
    [][\A t \in Tasks :
          (\/ ListArrived(t) /\ InterfacesOf(out[t].body) = <<>>
           \/ DetailArrived(t) /\ ~Eligible(out[t].body)
                 /\ loc[t].idx = Len(loc[t].interfaces)) =>
              /\ ~ReturnsIface(t)
              /\ tpc'[t] = "end"
              /\ NoInterfaceError(result'[t], AllocNode(t))
              /\ loc'[t].allocErr = result'[t]]_vars

\* Every interface of node B was looked at and none was free.
C6_Witness ==
    \E t \in Tasks :
        /\ tool[t].name = "link_nodes" /\ tpc[t] = "end"
        /\ loc[t].allocB = "error" /\ loc[t].idx = MaxIfaces
        /\ NoInterfaceError(result[t], tool[t].b)
        /\ "link" \notin touched[t]

ToolNames == {"initialize_client", "create_lab", "start_lab", "stop_lab", "add_node",
              "link_nodes", "create_link_v3", "get_lab_topology"}

\* C7: no tool operation lets an exception out.  What it returns is a
\* dictionary or a text, and when its last call on the session failed (login
\* rejected, transport failure, non-2xx status) or was answered by something
\* it cannot decode, the result is an error dictionary or an error text.
C7_NeverRaises ==
    \A t \in Tasks : tool[t].name \in ToolNames =>
        /\ result[t].kind # "raised"
        /\ tpc[t] = "end" =>
             /\ result[t].kind = "returned" /\ result[t].type \in {"dict", "str"}
             /\ (out[t].kind = "raise" \/ (out[t].kind = "ok" /\ out[t].body.shape = "bad")) =>
                    result[t].error

\* get_lab_topology met a transport failure and returned an error text.
C7_Witness ==
    \E t \in Tasks :
        /\ tool[t].name = "get_lab_topology" /\ tpc[t] = "end"
        /\ out[t].kind = "raise" /\ out[t].exc = "TransportError"
        /\ result[t].kind = "returned" /\ result[t].type = "str" /\ result[t].error

\* n quote characters
Quotes(n) == [k \in 1..n |-> Q]

\* v is text without the quote characters at its two ends.
Unquoted(text, v) ==
    /\ \E i \in 0..Len(text), j \in 0..Len(text) : text = Quotes(i) \o v \o Quotes(j)
    /\ v = <<>> \/ (Head(v) # Q /\ v[Len(v)] # Q)

\* Task t's authenticate() gets the answer to its login POST in this step.
LoginStep(t) == gh'[t].logins = gh[t].logins + 1
\* Task t's authenticate() gets the answer to its authok GET (or none) and
\* returns.
AuthokStep(t) == rpc[t] = "authok" /\ rpc'[t] # "authok"

\* C8: a login that is refused or does not get through makes authenticate()
\* raise and leaves every token as it was.  A login answered with 2xx stores
\* the answer's text, stripped of the quotes around it, as the session's
\* token and goes on to the authok check; whatever the check's outcome,
\* authenticate() does not raise, does not touch the token and returns the
\* token it stored.
C8_Authenticate ==
    [][\A t \in Tasks :
          /\ (LoginStep(t) /\ rpc'[t] = "done") =>
                 /\ out'[t].kind = "raise" /\ ~Is2xx(out'[t].status)
                 /\ token' = token
          /\ (LoginStep(t) /\ rpc'[t] # "done") =>
                 /\ rpc'[t] = "authok"
                 /\ token'[sess'[t]].has
                 /\ Unquoted(gh'[t].loginBody, token'[sess'[t]].val)
                 /\ \A s \in DOMAIN token \ {sess'[t]} : token'[s] = token[s]
          /\ AuthokStep(t) =>
                 /\ token' = token
                 /\ out'[t].kind # "raise"
                 /\ rpc'[t] \in {"send1", "send2", "done"}
                 /\ gh'[t].authRet = token[sess[t]]
                 /\ Unquoted(gh[t].loginBody, gh'[t].authRet.val)]_vars

\* A re-login answered with the text "a" in quotes stored a, the authok
\* check after it failed, and the call is about to be sent again.
C8_Witness ==
    \E t \in Tasks :
        /\ rpc[t] = "send2" /\ gh[t].check = "fail"
        /\ gh[t].loginBody = <<Q, "a", Q>>
        /\ token[sess[t]] = Tok(<<"a">>) /\ gh[t].authRet = Tok(<<"a">>)

\* Task t's login on session s succeeds in this step.
LoginSucceeds(t, s) == LoginStep(t) /\ rpc'[t] = "authok" /\ sess'[t] = s

\* C9: a session that holds a token has had a successful login.  A new
\* session holds none; a session's token changes only in the step in which a
\* login on that session succeeds, and the new value is a token: nothing
\* else sets it and nothing takes it back to none.
C9_TokenFromLogin ==
    /\ [](\A s \in DOMAIN token : token[s].has => s \in loggedIn)
    /\ [][\A s \in DOMAIN token' :
            IF s \in DOMAIN token
            THEN token'[s] # token[s] =>
                     (token'[s].has /\ \E t \in Tasks : LoginSucceeds(t, s))
            ELSE ~token'[s].has]_vars

\* A session that held a token was answered 401, logged in again and holds
\* the token b of that login.
C9_Witness ==
    \E t \in Tasks :
        /\ gh[t].sts = <<Unauthorized>> /\ gh[t].lazy = "none" /\ gh[t].relogin = "ok"
        /\ token[sess[t]] = Tok(<<"b">>) /\ sess[t] \in loggedIn

CreationTools == {"create_lab", "add_node", "create_link_v3", "link_nodes"}
Identifiers == {"x1", "x2"}

\* The creating POST of task t was answered with 2xx.
Created(t) == req[t].stage \in {"create", "link"} /\ out[t].kind = "ok"
\* The answer is an object with an identifier in its id field.
HasId(body) == body.shape = "dict" /\ body.id \in Identifiers

\* C10: a creation operation whose POST is answered with 2xx but without an
\* identifier returns an error, and one that reports success got a 2xx
\* answer with an identifier and reports that identifier.
C10_NoSuccessWithoutId ==
    \A t \in Tasks : (tool[t].name \in CreationTools /\ tpc[t] = "end") =>
        /\ (Created(t) /\ ~HasId(out[t].body)) => result[t].error
        /\ ~result[t].error =>
               /\ Created(t) /\ HasId(out[t].body)
               /\ result[t].id = out[t].body.id

\* add_node was answered 200 with an object that has no id field and
\* returned the error.
C10_Witness ==
    \E t \in Tasks :
        /\ tool[t].name = "add_node" /\ tpc[t] = "end"
        /\ out[t] = OkOut(200, JObj(NoField))
        /\ result[t] = ErrDict("Failed to create node, no node ID returned", 0)

\* Task t is inside the authenticate() its request() called after a 401,
\* suspended at the authok check, its login answered with text.
InRelogin(t, text) ==
    /\ tool[t].name = "request" /\ rpc[t] = "authok" /\ aret[t] = "send2"
    /\ gh[t].relogin = "ok" /\ gh[t].loginBody = text

\* C11: request() invocations that run concurrently on the shared session
\* log in again independently of one another, and that does no harm.  In the
\* step in which a login on a session succeeds the session's token becomes
\* the unquoted text of that login, whatever token was stored and whoever
\* stored it; in every other step the token stays as it is, and it never goes
\* back to none: the token is that of the login that succeeded last.  Each
\* invocation logs in again at most once, and only after a 401, and sends at
\* most twice.
C11_LastLoginWins ==
    /\ [][\A s \in DOMAIN token \cap DOMAIN token' :
            /\ token[s].has => token'[s].has
            /\ \A t \in Tasks : LoginSucceeds(t, s) =>
                   (token'[s].has /\ Unquoted(gh'[t].loginBody, token'[s].val))
            /\ (\A t \in Tasks : ~LoginSucceeds(t, s)) => token'[s] = token[s]]_vars
    /\ [](\A t \in Tasks : InRequest(t) =>
            /\ Relogins(t) <= 1 /\ Len(gh[t].sent) <= 2
            /\ Relogins(t) = 1 => First401(t)
            /\ Len(gh[t].sent) = 2 => (First401(t) /\ gh[t].relogin = "ok"))

\* Two invocations on the same session are inside authenticate() at once,
\* one logged in as a and the other as b, and the session holds b.
C11_Witness ==
    \E t \in Tasks : \E u \in Tasks \ {t} :
        /\ sess[t] = sess[u]
        /\ InRelogin(t, <<Q, "a", Q>>) /\ InRelogin(u, <<Q, "b", Q>>)
        /\ token[sess[t]] = Tok(<<"b">>)

\* The status is no success; the failure request() raises for status st.
Refused(st) == ~(200 <= st /\ st < 300)
FailureFor(st) == IF st = TransportFailure THEN "TransportError" ELSE "HTTPStatusError"

\* C12: the login and retry after a first 401 is all request() does to
\* recover.  A first send that is refused with a status other than 401, or
\* that fails in transport, ends the call: that one send, no login after it,
\* and a raise that carries the status.  A retry that is refused ends the
\* call the same way, after two sends and one re-login.  Nothing is sent
\* twice and no login follows a send unless the first status was 401.
C12_OnlyRecovery ==
    \A t \in Tasks : InRequest(t) =>
        /\ (Len(gh[t].sts) >= 1 /\ Refused(gh[t].sts[1]) /\ gh[t].sts[1] # Unauthorized) =>
               /\ CallOver(t)
               /\ Len(gh[t].sent) = 1 /\ Relogins(t) = 0 /\ gh[t].relogin = "none"
               /\ out[t].kind = "raise" /\ out[t].status = gh[t].sts[1]
               /\ out[t].exc = FailureFor(gh[t].sts[1])
        /\ (Len(gh[t].sts) = 2 /\ Refused(gh[t].sts[2])) =>
               /\ CallOver(t)
               /\ Len(gh[t].sent) = 2 /\ Relogins(t) = 1
               /\ out[t].kind = "raise" /\ out[t].status = gh[t].sts[2]
               /\ out[t].exc = FailureFor(gh[t].sts[2])
        /\ (Len(gh[t].sent) > 1 \/ Relogins(t) > 0) => First401(t)
        /\ Len(gh[t].sts) = Len(gh[t].sent)

\* A first send was answered 500: the call is over after that one send,
\* without a login, and has raised with the status.
C12_Witness ==
    \E t \in Tasks :
        /\ InRequest(t) /\ rpc[t] = "done"
        /\ gh[t].sts = <<500>> /\ Len(gh[t].sent) = 1 /\ gh[t].logins = 0
        /\ out[t] = RaiseOut(500)

\* The calls add_node of task t has sent to the nodes endpoint.
AddNodeSent(t) ==
    IF tool[t].name = "add_node"
    THEN {gh[t].sent[i] : i \in 1..Len(gh[t].sent)}
    ELSE {}

\* Field f is in the body exactly when the caller supplied the argument, and
\* then with the caller's value.
FieldIffSupplied(body, f, arg) ==
    /\ f \in DOMAIN body <=> arg # {}
    /\ arg # {} => body[f] \in arg

\* The flag travels in the query string and not in the body.
FlagInQuery(w, populate) ==
    /\ "populate_interfaces" \notin DOMAIN w.json
    /\ w.endpoint.q = (IF populate THEN "populate_interfaces=true" ELSE "")

\* C13 as stated: each of ram, cpu_limit and parameters is in the body of
\* add_node's POST only when the caller supplied it, and populate_interfaces
\* is a query modifier and no body field.
C13_OptionalFieldsOmitted ==
    \A t \in Tasks : \A w \in AddNodeSent(t) :
        /\ FieldIffSupplied(w.json, "ram", tool[t].ram)
        /\ FieldIffSupplied(w.json, "cpu_limit", tool[t].cpu)
        /\ FieldIffSupplied(w.json, "parameters", tool[t].params)
        /\ FlagInQuery(w, tool[t].populate)

\* C13, amended: ram and cpu_limit are in the body only when the caller
\* supplied them; parameters is always in the body, with the caller's value
\* or, when the caller supplied none, as an empty object;
\* populate_interfaces is a query modifier and no body field.
C13_RamCpuOmitted ==
    \A t \in Tasks : \A w \in AddNodeSent(t) :
        /\ FieldIffSupplied(w.json, "ram", tool[t].ram)
        /\ FieldIffSupplied(w.json, "cpu_limit", tool[t].cpu)
        /\ "parameters" \in DOMAIN w.json
        /\ w.json.parameters \in (IF tool[t].params = {} THEN {NoJson} ELSE tool[t].params)
        /\ FlagInQuery(w, tool[t].populate)

\* add_node was called with the flag set and nothing optional, and its POST
\* went out without ram and cpu_limit, with empty parameters and with the
\* flag in the query.
C13_Witness ==
    \E t \in Tasks : \E w \in AddNodeSent(t) :
        /\ tool[t].ram = {} /\ tool[t].cpu = {} /\ tool[t].params = {}
        /\ tool[t].populate
        /\ DOMAIN w.json = {"label", "node_definition", "x", "y", "parameters", "tags",
                            "hide_links"}
        /\ w.json.parameters = NoJson
        /\ w.endpoint.q = "populate_interfaces=true"

\* Task t's initialize_client has its answer from authenticate() and returns
\* in this step.
InitializeReturns(t) ==
    tool[t].name = "initialize_client" /\ rpc[t] = "done" /\ tpc'[t] = "end"

\* C14: the global client changes only in the step in which an
\* initialize_client whose authenticate() succeeded returns, and it becomes
\* that call's new session, which holds a token.  An initialize_client whose
\* login failed returns an error and leaves the global client as it was; from
\* its start to its return the token of the installed session does not
\* change.  So the client a later request() runs on is the session of the
\* last initialize_client that succeeded, and there is none before the first.
C14_ReplacedOnSuccessOnly ==
    /\ [](cml_client # 0 => (cml_client \in loggedIn /\ token[cml_client].has))
    /\ [][cml_client' # cml_client =>
            \E t \in Tasks :
                /\ InitializeReturns(t) /\ out[t].kind = "ok"
                /\ cml_client' = sess[t] /\ sess[t] \in loggedIn]_vars
    /\ [][\A t \in Tasks :
            /\ InitializeReturns(t) =>
                 IF out[t].kind = "ok"
                 THEN cml_client' = sess[t] /\ ~result'[t].error
                 ELSE cml_client' = cml_client /\ result'[t].error
            /\ (tool'[t].name = "initialize_client" /\ cml_client # 0
                    /\ cml_client' = cml_client) =>
                 token'[cml_client] = token[cml_client]
            /\ Sends(t) => sess'[t] = cml_client]_vars

\* A client is installed, and an initialize_client that came after it has
\* failed: the installed client and its token are still there.
C14_Witness ==
    \E t \in Tasks :
        /\ tool[t].name = "initialize_client" /\ tpc[t] = "end"
        /\ out[t].kind = "raise" /\ result[t].error
        /\ cml_client # 0 /\ cml_client # sess[t]
        /\ Truthy(token[cml_client])
====
